---- MODULE Spec2Model ----
(***************************************************************************)
(* Authentication glue of deploy_invoice (app/crud/user_crud.py):          *)
(* the shop-context resolver get_user_shop_data, the token issuer          *)
(* create_access_token and the current-user resolver get_current_user,     *)
(* over a user store, a shop table, an invoice table and a wall clock.     *)
(*                                                                         *)
(* Time is counted in ticks.  `now' is the true UTC time; the server's     *)
(* local wall clock reads now + tz.  A naive datetime is a record          *)
(* [wall |-> n]; python-jose turns it into a timestamp with                *)
(* timegm(dt.utctimetuple()), which reads the wall-clock fields as UTC.    *)
(*                                                                         *)
(* Both coroutines are suspended at their awaited queries: other requests  *)
(* write the tables and time passes between the synchronous part of a      *)
(* call and each of its queries.                                           *)
(***************************************************************************)
EXTENDS Integers, Sequences, FiniteSets, TLC

\* ---------------------------------------------------------------- bounds
MaxTime == 2
TzShift == 2
MaxUser == 1
MaxDelta == 1
MaxShop == 2
MaxInvoice == 2

\* ------------------------------------------------------------- constants
\* Python None / SQL NULL.  Database ids are positive.
None == 0
HTTP_401_UNAUTHORIZED == 401
HTTP_400_BAD_REQUEST == 400
\* Settings (src lines 18-20), read from the environment once.
SECRET_KEY == "configured-secret"
ALGORITHM == "HS256"
ACCESS_TOKEN_EXPIRE_MINUTES == 2

OtherSecret == "other-secret"
OtherAlgorithm == "HS512"

UserIds == 1..MaxUser
\* The user ids a token, a shop row or an invoice row can carry: the ids of the
\* users table and one id that has no row in it.
RowUserIds == 1..(MaxUser + 1)
ShopIds == 1..MaxShop
Stamps == 1..MaxInvoice
TzOffsets == {0 - TzShift, 0, TzShift}
\* expires_delta: {} is None, {d} is timedelta(d)
DeltaArgs == {{}} \cup {{d} : d \in 0..MaxDelta}

VARIABLES
  now,       \* true UTC time
  tz,        \* offset of the server's local time zone from UTC
  users,     \* the users table: id -> row
  shops,     \* the shops table: shop id = position, value = owner
  invoices,  \* the invoices table: invoice id = position
  issued,    \* the token the client holds, with the arguments of its issuance
  pending,   \* the get_current_user call suspended at line 153: its locals
  loading,   \* the get_user_shop_data call suspended at line 84: its locals
  ctxOut,    \* the dict a get_user_shop_data call returned in the last step
  response   \* the outcome a get_current_user call reached in the last step

vars == <<now, tz, users, shops, invoices, issued, pending, loading, ctxOut, response>>

\* ------------------------------------------------------------ dictionaries
\* dict.get(key, default)
DictGet(d, k, default) == IF k \in DOMAIN d THEN d[k] ELSE default
\* dict.update(other): other's entries win
DictUpdate(d, other) == other @@ d

\* ------------------------------------------------------------------ clock
\* datetime.now(): naive local wall clock
DatetimeNow == [wall |-> now + tz]
\* datetime.utcnow(): naive UTC wall clock (used by jose's exp validation)
DatetimeUtcNow == [wall |-> now]
DatetimePlus(dt, d) == [wall |-> dt.wall + d]
\* calendar.timegm(dt.utctimetuple()): a naive datetime's fields are read as UTC
Timegm(dt) == dt.wall

\* ------------------------------------------------------------- user store
AbsentRow == [exists |-> FALSE, is_active |-> FALSE, is_superuser |-> FALSE]
UserRow(active, su) == [exists |-> TRUE, is_active |-> active, is_superuser |-> su]
LoginOf(u) == <<"login", u>>
\* The User entity select(User).where(User.id == id) loads: {} when no row matches.
SelectUser(id) ==
  IF id \in DOMAIN users /\ users[id].exists
  THEN {[id |-> id, login |-> LoginOf(id), is_active |-> users[id].is_active,
         is_superuser |-> users[id].is_superuser]}
  ELSE {}

\* -------------------------------------------------------------- python-jose
\* The signature a key and an algorithm produce over a claims set.
Sign(claims, key, alg) == [key |-> key, alg |-> alg, over |-> claims]
\* jwt.encode converts a datetime "exp" claim to a timestamp before signing.
NumericDate(claims) ==
  IF "exp" \in DOMAIN claims THEN [claims EXCEPT !["exp"] = Timegm(@)] ELSE claims
\* jwt.encode(claims, key, algorithm)
jwt_encode(claims, key, alg) ==
  [wellformed |-> TRUE, alg |-> alg, claims |-> NumericDate(claims),
   sig |-> Sign(NumericDate(claims), key, alg)]
\* jose's exp validation: ExpiredSignatureError iff exp < utcnow
ExpValid(claims) == "exp" \in DOMAIN claims => ~(claims["exp"] < Timegm(DatetimeUtcNow))
\* jwt.decode(token, key, algorithms): {claims}, or {} when it raises JWTError
\* (unparsable token, algorithm not allowed, bad signature, expired).
jwt_decode(token, key, algorithms) ==
  IF /\ token.wellformed
     /\ token.alg \in algorithms
     /\ token.sig = Sign(token.claims, key, token.alg)
     /\ ExpValid(token.claims)
  THEN {token.claims}
  ELSE {}

\* ------------------------------------------------------- get_user_shop_data
\* user_with_shops.shops: the ids of the shops of user u.  The query has no
\* ORDER BY: the database returns them in the order it likes, so each of them
\* can be shops[0].
ShopsOf(u) == {s \in 1..Len(shops) : shops[s] = u}
\* rows of select(Invoice).where(user_id == u, shop_id == s)
InvoicesOf(u, s) ==
  {i \in 1..Len(invoices) : invoices[i].user_id = u /\ invoices[i].shop_id = s}
\* Mutant of LastInvoices: order_by(created_at.asc())
LastInvoices_Ascending(u, s) ==
  {i \in InvoicesOf(u, s) :
     \A j \in InvoicesOf(u, s) : invoices[i].created_at <= invoices[j].created_at}
\* .order_by(created_at.desc()).limit(1).scalar_one_or_none(): the rows that can
\* come first in descending order (the database breaks ties as it likes)
LastInvoices(u, s) ==
  {i \in InvoicesOf(u, s) :
     \A j \in InvoicesOf(u, s) : invoices[j].created_at <= invoices[i].created_at}
\* lines 71-75
NoShopData == [user_shop_id |-> None, last_invoice_id |-> None]
\* lines 64-77: the user_shop values the first query can leave; {} when the
\* user has no row or no shop
FirstShop(u) == IF SelectUser(u) = {} THEN {} ELSE ShopsOf(u)
\* lines 79-90: the dicts the second query can lead to
ShopData(u, user_shop) ==
  IF LastInvoices(u, user_shop) = {}
  THEN {[user_shop_id |-> user_shop, last_invoice_id |-> None]}
  ELSE {[user_shop_id |-> user_shop, last_invoice_id |-> i] :
          i \in LastInvoices(u, user_shop)}
\* The dicts get_user_shop_data(session, user) can return for the user with id u
\* when no table is written while it runs.
get_user_shop_data(u) ==
  IF FirstShop(u) = {} THEN {NoShopData}
  ELSE UNION {ShopData(u, user_shop) : user_shop \in FirstShop(u)}

\* ------------------------------------------------------ create_access_token
\* Python truthiness of Optional[Dict]: None and the empty dict are falsy
DictTruthy(arg) == \E d \in arg : DOMAIN d # {}
\* Python truthiness of Optional[timedelta]: None and timedelta(0) are falsy
DeltaTruthy(arg) == \E d \in arg : d # 0
\* lines 111-114
Expire(expires_delta) ==
  IF DeltaTruthy(expires_delta)
  THEN DatetimePlus(DatetimeNow, CHOOSE d \in expires_delta : TRUE)
  ELSE DatetimePlus(DatetimeNow, ACCESS_TOKEN_EXPIRE_MINUTES)
\* Mutant of ToEncode: the context record is never merged in
ToEncode_NoContext(user, user_shop_data) ==
  [user_id |-> user.id, is_superuser |-> user.is_superuser, sub |-> user.login]
\* lines 99-109
ToEncode(user, user_shop_data) ==
  LET base == [user_id |-> user.id, is_superuser |-> user.is_superuser,
               sub |-> user.login]
  IN IF DictTruthy(user_shop_data)
     THEN LET d == CHOOSE x \in user_shop_data : TRUE
          IN DictUpdate(base, [user_shop_id |-> DictGet(d, "user_shop_id", None),
                               last_invoice_id |-> DictGet(d, "last_invoice_id", None)])
     ELSE base
create_access_token(user, user_shop_data, expires_delta) ==
  jwt_encode(DictUpdate(ToEncode(user, user_shop_data),
                        [exp |-> Expire(expires_delta)]),
             SECRET_KEY, ALGORITHM)

\* --------------------------------------------------------- get_current_user
credentials_exception ==
  [status_code |-> HTTP_401_UNAUTHORIZED, detail |-> "Could not validate credentials",
   headers |-> {<<"WWW-Authenticate", "Bearer">>}]
inactive_exception ==
  [status_code |-> HTTP_400_BAD_REQUEST, detail |-> "Inactive user", headers |-> {}]
Raise(exc) == [outcome |-> "REJECTED", exception |-> {exc}, user |-> {}]
Return(user) == [outcome |-> "AUTHORIZED", exception |-> {}, user |-> {user}]
\* Mutant of DecodeStep: decoding with signature verification switched off
DecodeStep_Unverified(token) ==
  IF token.wellformed /\ ExpValid(token.claims) THEN {token.claims} ELSE {}
\* Mutant of DecodeStep: decoding with exp verification switched off
DecodeStep_NoExpiry(token) ==
  IF /\ token.wellformed
     /\ token.alg = ALGORITHM
     /\ token.sig = Sign(token.claims, SECRET_KEY, token.alg)
  THEN {token.claims}
  ELSE {}
\* line 132
DecodeStep(token) == jwt_decode(token, SECRET_KEY, {ALGORITHM})
\* lines 133-147: {} when user_id is None (credentials_exception is raised)
ExtractTokenData(payload) ==
  LET user_id == DictGet(payload, "user_id", None)
      user_shop_id == DictGet(payload, "user_shop_id", None)
      last_invoice_id == DictGet(payload, "last_invoice_id", None)
      is_superuser == DictGet(payload, "is_superuser", FALSE)
  IN IF user_id = None
     THEN {}
     ELSE {[user_id |-> user_id, is_superuser |-> is_superuser,
            user_shop_id |-> user_shop_id, last_invoice_id |-> last_invoice_id]}
\* lines 125-150, the part of get_current_user that runs before its query:
\* the token_data the try block leaves, {} when credentials_exception is raised
TokenDataOf(token) ==
  IF DecodeStep(token) = {} THEN {}
  ELSE ExtractTokenData(CHOOSE p \in DecodeStep(token) : TRUE)
\* Mutant of LoadUser: a missing user is reported as 404
LoadUser_NotFound404(token_data) ==
  LET found == SelectUser(token_data.user_id)
  IN IF found = {}
     THEN Raise([status_code |-> 404, detail |-> "User not found", headers |-> {}])
     ELSE LET user == CHOOSE x \in found : TRUE
          IN IF ~user.is_active THEN Raise(inactive_exception)
             ELSE Return([id |-> user.id, login |-> user.login,
                          is_active |-> user.is_active,
                          is_superuser |-> user.is_superuser,
                          current_shop_id |-> token_data.user_shop_id,
                          last_invoice_id |-> token_data.last_invoice_id])
\* Mutant of LoadUser: the token's superuser flag is copied onto the user
LoadUser_TrustToken(token_data) ==
  LET found == SelectUser(token_data.user_id)
  IN IF found = {} THEN Raise(credentials_exception)
     ELSE LET user == CHOOSE x \in found : TRUE
          IN IF ~user.is_active THEN Raise(inactive_exception)
             ELSE Return([id |-> user.id, login |-> user.login,
                          is_active |-> user.is_active,
                          is_superuser |-> token_data.is_superuser,
                          current_shop_id |-> token_data.user_shop_id,
                          last_invoice_id |-> token_data.last_invoice_id])
\* Mutant of LoadUser: the is_active check is missing
LoadUser_SkipActive(token_data) ==
  LET found == SelectUser(token_data.user_id)
  IN IF found = {} THEN Raise(credentials_exception)
     ELSE LET user == CHOOSE x \in found : TRUE
          IN Return([id |-> user.id, login |-> user.login,
                     is_active |-> user.is_active,
                     is_superuser |-> user.is_superuser,
                     current_shop_id |-> token_data.user_shop_id,
                     last_invoice_id |-> token_data.last_invoice_id])
\* lines 152-167, the part of get_current_user that runs with the query's result
LoadUser(token_data) ==
  LET found == SelectUser(token_data.user_id)
  IN IF found = {} THEN Raise(credentials_exception)
     ELSE LET user == CHOOSE x \in found : TRUE
          IN IF ~user.is_active THEN Raise(inactive_exception)
             ELSE Return([id |-> user.id, login |-> user.login,
                          is_active |-> user.is_active,
                          is_superuser |-> user.is_superuser,
                          current_shop_id |-> token_data.user_shop_id,
                          last_invoice_id |-> token_data.last_invoice_id])

\* ------------------------------------------------ tokens from other sources
ClaimsFor(u, su) == [user_id |-> u, is_superuser |-> su, sub |-> LoginOf(u)]
Malformed ==
  [wellformed |-> FALSE, alg |-> ALGORITHM, claims |-> [sub |-> "garbage"],
   sig |-> Sign([sub |-> "garbage"], OtherSecret, ALGORITHM)]
WrongSecret == jwt_encode(ClaimsFor(1, TRUE), OtherSecret, ALGORITHM)
WrongAlgorithm == jwt_encode(ClaimsFor(1, TRUE), SECRET_KEY, OtherAlgorithm)
Tampered ==
  [jwt_encode(ClaimsFor(1, FALSE), SECRET_KEY, ALGORITHM)
     EXCEPT !.claims = ClaimsFor(1, TRUE)]
NoUserId == jwt_encode([is_superuser |-> FALSE, sub |-> LoginOf(1)], SECRET_KEY, ALGORITHM)
NoSuperuserClaim == jwt_encode([user_id |-> 1, sub |-> LoginOf(1)], SECRET_KEY, ALGORITHM)
ForeignTokens ==
  {Malformed, WrongSecret, WrongAlgorithm, Tampered, NoUserId, NoSuperuserClaim}

\* ---------------------------------------------------------------- actions
\* The user_shop_data arguments create_access_token is called with: None, the
\* empty dict, or what get_user_shop_data returns for the user.
EmptyDict == [k \in {} |-> None]
ContextArgs(u) ==
  {{}, {EmptyDict}} \cup {{d} : d \in get_user_shop_data(u)}

Init ==
  /\ now = 0
  /\ tz \in TzOffsets
  /\ users = [u \in UserIds |-> UserRow(TRUE, FALSE)]
  /\ shops = <<1>>
  /\ invoices = <<[user_id |-> 1, shop_id |-> 1, created_at |-> 1],
                  [user_id |-> 1, shop_id |-> 1, created_at |-> 2]>>
  /\ issued = {}
  /\ pending = {}
  /\ loading = {}
  /\ ctxOut = {}
  /\ response = {}

Tick ==
  /\ now < MaxTime
  /\ now' = now + 1
  /\ response' = {}
  /\ UNCHANGED <<tz, users, shops, invoices, issued, pending, loading, ctxOut>>

\* User rows are written by CRUD code outside this module, also while a
\* get_current_user or a get_user_shop_data call is suspended.
CreateUser(u, active, su) ==
  /\ ~users[u].exists
  /\ users' = [users EXCEPT ![u] = UserRow(active, su)]
  /\ response' = {}
  /\ ctxOut' = {}
  /\ UNCHANGED <<now, tz, shops, invoices, issued, pending, loading>>
DeleteUser(u) ==
  /\ users[u].exists
  /\ users' = [users EXCEPT ![u] = AbsentRow]
  /\ response' = {}
  /\ ctxOut' = {}
  /\ UNCHANGED <<now, tz, shops, invoices, issued, pending, loading>>
SetActive(u, active) ==
  /\ users[u].exists
  /\ users[u].is_active # active
  /\ users' = [users EXCEPT ![u].is_active = active]
  /\ response' = {}
  /\ UNCHANGED <<now, tz, shops, invoices, issued, pending, loading, ctxOut>>
SetSuperuser(u, su) ==
  /\ users[u].exists
  /\ users[u].is_superuser # su
  /\ users' = [users EXCEPT ![u].is_superuser = su]
  /\ response' = {}
  /\ UNCHANGED <<now, tz, shops, invoices, issued, pending, loading, ctxOut>>

\* create_access_token(user, user_shop_data, expires_delta) for a stored user.
\* The call writes nothing on the server, so a behaviour follows one token: the
\* client logs in once, at any time and in any state of the users table, and
\* keeps the token.  user, at, user_shop_data and expires_delta record the call.
CreateAccessToken(u, user_shop_data, expires_delta) ==
  /\ issued = {}
  /\ pending = {}
  /\ SelectUser(u) # {}
  /\ LET user == CHOOSE x \in SelectUser(u) : TRUE
     IN issued' = {[token |-> create_access_token(user, user_shop_data, expires_delta),
                    user |-> [id |-> user.id, is_superuser |-> user.is_superuser],
                    at |-> now,
                    user_shop_data |-> user_shop_data,
                    expires_delta |-> expires_delta]}
  /\ response' = {}
  /\ UNCHANGED <<now, tz, users, shops, invoices, pending, loading, ctxOut>>

\* A request with bearer token t, lines 125-153: get_current_user decodes the
\* token against the clock and either raises or is suspended at its query.
\* decoded_at records the clock reading of the decode.
StartGetCurrentUser(t) ==
  /\ pending = {}
  /\ IF TokenDataOf(t) = {}
     THEN /\ response' = {[token |-> t, decoded_at |-> now, token_data |-> {},
                           result |-> Raise(credentials_exception)]}
          /\ pending' = {}
     ELSE /\ pending' = {[token |-> t, decoded_at |-> now,
                          token_data |-> CHOOSE td \in TokenDataOf(t) : TRUE]}
          /\ response' = {}
  /\ UNCHANGED <<now, tz, users, shops, invoices, issued, loading, ctxOut>>
\* lines 153-167: the query runs against the users table as it is now.
FinishGetCurrentUser ==
  /\ \E p \in pending :
       response' = {[token |-> p.token, decoded_at |-> p.decoded_at,
                     token_data |-> {p.token_data},
                     result |-> LoadUser(p.token_data)]}
  /\ pending' = {}
  /\ UNCHANGED <<now, tz, users, shops, invoices, issued, loading, ctxOut>>

Next ==
  \/ Tick
  \/ \E u \in UserIds, active \in BOOLEAN, su \in BOOLEAN : CreateUser(u, active, su)
  \/ \E u \in UserIds : DeleteUser(u)
  \/ \E u \in UserIds, active \in BOOLEAN : SetActive(u, active)
  \/ \E u \in UserIds, su \in BOOLEAN : SetSuperuser(u, su)
  \/ \E u \in UserIds : \E c \in ContextArgs(u), d \in DeltaArgs : CreateAccessToken(u, c, d)
  \/ \E t \in {i.token : i \in issued} \cup ForeignTokens : StartGetCurrentUser(t)
  \/ FinishGetCurrentUser

Spec == Init /\ [][Next]_vars

\* ------------------------------------------- the shop and invoice tables
InitShop ==
  /\ now = 0
  /\ tz = 0
  /\ users = [u \in UserIds |-> UserRow(TRUE, FALSE)]
  /\ shops = <<>>
  /\ invoices = <<>>
  /\ issued = {}
  /\ pending = {}
  /\ loading = {}
  /\ ctxOut = {}
  /\ response = {}

\* Shop and invoice rows are written by CRUD code outside this module, also
\* while a get_user_shop_data call is suspended.  A shop is inserted for a
\* stored user and stays when the user's row is deleted; an invoice row carries
\* a user id and a shop id of its own: the id of the shop's owner or another one.
OtherUser == [u \in RowUserIds |-> (u % (MaxUser + 1)) + 1]
AddShop(owner) ==
  /\ Len(shops) < MaxShop
  /\ users[owner].exists
  /\ shops' = Append(shops, owner)
  /\ ctxOut' = {}
  /\ UNCHANGED <<now, tz, users, invoices, issued, pending, loading, response>>
AddInvoice(own, s, t) ==
  /\ Len(invoices) < MaxInvoice
  /\ s <= Len(shops)
  /\ LET u == IF own THEN shops[s] ELSE OtherUser[shops[s]]
     IN invoices' = Append(invoices, [user_id |-> u, shop_id |-> s, created_at |-> t])
  /\ ctxOut' = {}
  /\ UNCHANGED <<now, tz, users, shops, issued, pending, loading, response>>
\* Whether the first query of a call for the user with id u finds a row.
UserFound(u) == u \in DOMAIN users /\ users[u].exists
\* get_user_shop_data(session, user) for the user with id u, lines 64-84: the
\* first query runs; the call returns two nulls or is suspended at the second.
\* found records whether the first query found the user's row, queries the
\* number of queries that ran.
StartGetUserShopData(u) ==
  /\ loading = {}
  /\ IF FirstShop(u) = {}
     THEN /\ ctxOut' = {[user |-> u, data |-> NoShopData, found |-> UserFound(u),
                         queries |-> 1]}
          /\ loading' = {}
     ELSE /\ \E user_shop \in FirstShop(u) :
               loading' = {[user |-> u, user_shop |-> user_shop,
                            found |-> UserFound(u)]}
          /\ ctxOut' = {}
  /\ UNCHANGED <<now, tz, users, shops, invoices, issued, pending, response>>
\* lines 84-90: the second query runs against the invoices table as it is now;
\* the users table is not read again.
FinishGetUserShopData ==
  /\ \E l \in loading : \E d \in ShopData(l.user, l.user_shop) :
       ctxOut' = {[user |-> l.user, data |-> d, found |-> l.found,
                   queries |-> 2]}
  /\ loading' = {}
  /\ UNCHANGED <<now, tz, users, shops, invoices, issued, pending, response>>

\* get_user_shop_data reads of a user row only that it is there: the rows
\* created here carry the default flags.
NextShop ==
  \/ \E u \in UserIds : CreateUser(u, TRUE, FALSE)
  \/ \E u \in UserIds : DeleteUser(u)
  \/ \E owner \in UserIds : AddShop(owner)
  \/ \E own \in BOOLEAN, s \in ShopIds, t \in Stamps : AddInvoice(own, s, t)
  \/ \E u \in RowUserIds : StartGetUserShopData(u)
  \/ FinishGetUserShopData

SpecShop == InitShop /\ [][NextShop]_vars

\* ==================================================================== claims
\* What the decode step checks, stated on the token: it parses, it is signed
\* with the configured secret and algorithm, and its exp, if any, is not past.
\* In a state with a response, users is the table the call's query read, and
\* decoded_at is the time at which the call decoded the token.
SignatureVerifies(t) ==
  t.wellformed /\ t.alg = ALGORITHM /\ t.sig = Sign(t.claims, SECRET_KEY, ALGORITHM)
TokenVerifiesAt(t, time) ==
  SignatureVerifies(t) /\ ("exp" \in DOMAIN t.claims => t.claims["exp"] >= time)
\* The token of response r verified when the call decoded it.
TokenVerifies(r) == TokenVerifiesAt(r.token, r.decoded_at)
\* The 401 response: status, detail and challenge header, and no user.
Rejected401(r) ==
  r.result = [outcome |-> "REJECTED", user |-> {},
              exception |-> {[status_code |-> 401,
                              detail |-> "Could not validate credentials",
                              headers |-> {<<"WWW-Authenticate", "Bearer">>}]}]
\* The 400 response: status and detail, no challenge header, and no user.
Rejected400(r) ==
  r.result = [outcome |-> "REJECTED", user |-> {},
              exception |-> {[status_code |-> 400, detail |-> "Inactive user",
                              headers |-> {}]}]
Authorized(r) == r.result.outcome = "AUTHORIZED"
HasUserId(t) == "user_id" \in DOMAIN t.claims /\ t.claims["user_id"] # None
\* The validity duration a create_access_token call asks for.
Duration(expires_delta) ==
  IF expires_delta = {} THEN ACCESS_TOKEN_EXPIRE_MINUTES
  ELSE CHOOSE d \in expires_delta : TRUE

\* C1: a token that is malformed, or whose signature does not verify under the
\* configured secret and algorithm, always gets the 401 response with the
\* challenge header, whatever the user store holds.
C1_BadSignatureRejected ==
  \A r \in response : ~SignatureVerifies(r.token) => Rejected401(r)
\* A token signed with another secret, naming an existing active superuser-claiming
\* user, has been presented.
C1_Witness ==
  \E r \in response :
    /\ r.token = WrongSecret
    /\ users[1].exists /\ users[1].is_active
    /\ Rejected401(r)

\* C2: a token issued by create_access_token and presented after issue time plus
\* its validity duration always gets the 401 response (stated here for the
\* calls that pass no duration or a nonzero one).
C2_ExpiredRejected ==
  \A r \in response : \A i \in issued :
    (r.token = i.token /\ i.expires_delta # {0}
       /\ r.decoded_at > i.at + Duration(i.expires_delta)) => Rejected401(r)

\* C3: a token issued with an explicit duration D and decoded before D has
\* elapsed is accepted by the decode step, which yields the user's id and
\* superuser flag.
C3_RoundTrip ==
  \A r \in response : \A i \in issued :
    (r.token = i.token /\ i.expires_delta # {}
       /\ r.decoded_at < i.at + Duration(i.expires_delta))
      => /\ r.token_data # {}
         /\ \A td \in r.token_data :
              td.user_id = i.user.id /\ td.is_superuser = i.user.is_superuser

\* C4: a token that verifies but carries no user_id, and a token that verifies
\* but names no stored user, get exactly the 401 response an invalid token gets.
C4_UniformRejection ==
  \A r \in response :
    /\ (TokenVerifies(r) /\ ~HasUserId(r.token)) => Rejected401(r)
    /\ (TokenVerifies(r) /\ HasUserId(r.token)
          /\ SelectUser(r.token.claims["user_id"]) = {}) => Rejected401(r)
    /\ ~TokenVerifies(r) => Rejected401(r)
\* A validly signed token without user_id has been presented.
C4_Witness ==
  \E r \in response : r.token = NoUserId /\ TokenVerifies(r) /\ Rejected401(r)

\* C5: the 400 "Inactive user" response (no challenge header) is given exactly
\* when the token verifies, carries a user_id, and names a stored inactive user;
\* a token that does not verify gets the 401 response even if it names an
\* inactive user.
C5_InactiveExactly ==
  \A r \in response :
    /\ Rejected400(r) <=>
         /\ TokenVerifies(r)
         /\ HasUserId(r.token)
         /\ \E u \in SelectUser(r.token.claims["user_id"]) : ~u.is_active
    /\ (\E e \in r.result.exception : e.status_code = 400) => Rejected400(r)
    /\ ~TokenVerifies(r) => Rejected401(r)
\* An issued token that verifies, naming a stored inactive user, was answered 400.
C5_Witness ==
  \E r \in response : \E i \in issued :
    /\ r.token = i.token
    /\ TokenVerifies(r)
    /\ users[i.user.id].exists /\ ~users[i.user.id].is_active
    /\ Rejected400(r)

\* C6: when an issued token is authorized, the user's current_shop_id and
\* last_invoice_id are those of the context record given at issuance, and both
\* are null when none was given; then the payload lacks both claims and the
\* verifier still authorizes an existing active user.
C6_ContextCarried ==
  \A r \in response : \A i \in issued :
    r.token = i.token =>
      /\ Authorized(r) =>
           \A u \in r.result.user :
             /\ \A d \in i.user_shop_data :
                  /\ u.current_shop_id = DictGet(d, "user_shop_id", None)
                  /\ u.last_invoice_id = DictGet(d, "last_invoice_id", None)
             /\ i.user_shop_data = {} =>
                  u.current_shop_id = None /\ u.last_invoice_id = None
      /\ i.user_shop_data = {} =>
           /\ "user_shop_id" \notin DOMAIN r.token.claims
           /\ "last_invoice_id" \notin DOMAIN r.token.claims
           /\ (TokenVerifies(r)
                 /\ \E u \in SelectUser(i.user.id) : u.is_active) => Authorized(r)
\* A token issued with the resolver's context (shop 1, latest invoice 2) was authorized.
C6_Witness ==
  \E r \in response : \E i \in issued :
    /\ r.token = i.token
    /\ i.user_shop_data = {[user_shop_id |-> 1, last_invoice_id |-> 2]}
    /\ \E u \in r.result.user : u.current_shop_id = 1 /\ u.last_invoice_id = 2

\* C8: every issued payload has exp, equal to the issue time (the server's
\* clock reading) plus the explicit duration whenever one is passed, zero
\* included, and plus ACCESS_TOKEN_EXPIRE_MINUTES only when none is passed.
C8_ExpIsIssuePlusDuration ==
  \A i \in issued :
    /\ "exp" \in DOMAIN i.token.claims
    /\ i.token.claims["exp"] = (i.at + tz) + Duration(i.expires_delta)

\* C9 as stated: the AUTHORIZED user's superuser flag is the token's
\* is_superuser claim (false when the claim is absent).
C9_TokenFlagTrusted ==
  \A r \in response :
    \A u \in r.result.user :
      u.is_superuser = DictGet(r.token.claims, "is_superuser", FALSE)
\* C9 amended: the is_superuser claim is decoded into the token data (false
\* when absent) but the AUTHORIZED user's superuser flag is the store's current
\* flag of that user.
C9_StoreFlagReturned ==
  \A r \in response :
    /\ \A td \in r.token_data :
         td.is_superuser = DictGet(r.token.claims, "is_superuser", FALSE)
    /\ \A u \in r.result.user :
         users[u.id].exists /\ u.is_superuser = users[u.id].is_superuser
\* A user was authorized whose store flag differs from the token's claim.
C9_Witness ==
  \E r \in response : \E u \in r.result.user :
    u.is_superuser # DictGet(r.token.claims, "is_superuser", FALSE)

\* C10 as stated, for a server in UTC and a token issued with a nonzero
\* duration: a request with an issued token gets 400 when its user is inactive,
\* 401 when its user is removed, and an AUTHORIZED user exists and is active.
C10_InactiveAlways400 ==
  \A r \in response : \A i \in issued :
    (r.token = i.token /\ tz = 0 /\ DeltaTruthy(i.expires_delta)) =>
      /\ (users[i.user.id].exists /\ ~users[i.user.id].is_active) => Rejected400(r)
      /\ ~users[i.user.id].exists => Rejected401(r)
      /\ Authorized(r) => (users[i.user.id].exists /\ users[i.user.id].is_active)
\* C10 amended: a request with an issued token whose user is inactive or removed
\* is never AUTHORIZED: it gets 401 when the user is removed or the token no
\* longer verifies, and 400 when the token verifies and the user is inactive;
\* every AUTHORIZED user, for any token, exists and is active in the store.
C10_RefetchedEveryRequest ==
  \A r \in response :
    /\ \A i \in issued :
         r.token = i.token =>
           /\ ~users[i.user.id].exists => Rejected401(r)
           /\ (users[i.user.id].exists /\ ~users[i.user.id].is_active) =>
                IF TokenVerifies(r) THEN Rejected400(r) ELSE Rejected401(r)
    /\ \A u \in r.result.user : users[u.id].exists /\ users[u.id].is_active
    /\ Authorized(r) <=> r.result.user # {}
\* A still-valid token whose user was removed after issuance was answered 401.
C10_Witness ==
  \E r \in response : \E i \in issued :
    /\ r.token = i.token
    /\ TokenVerifies(r)
    /\ ~users[i.user.id].exists
    /\ Rejected401(r)

\* C7: get_user_shop_data returns two nulls, after one query, when that query
\* finds no row of the user or no shop of the user; otherwise its first query
\* found the user's row, and it returns a shop of the user (the one its shop
\* collection listed first) and the id of an invoice of that user and that shop
\* with the greatest creation time, or a null invoice id when that user and
\* shop have no invoice.  In a state with a returned dict, the tables are those
\* the call's last query read; shop rows are only ever added.
C7_ShopData ==
  \A c \in ctxOut :
    LET own == {s \in 1..Len(shops) : shops[s] = c.user}
        stored == c.user \in UserIds /\ users[c.user].exists
    IN IF c.queries = 1
       THEN /\ c.found = stored
            /\ ~stored \/ own = {}
            /\ c.data = [user_shop_id |-> None, last_invoice_id |-> None]
       ELSE LET match == {k \in 1..Len(invoices) :
                            /\ invoices[k].user_id = c.user
                            /\ invoices[k].shop_id = c.data.user_shop_id}
            IN /\ c.queries = 2
               /\ c.found
               /\ DOMAIN c.data = {"user_shop_id", "last_invoice_id"}
               /\ c.data.user_shop_id \in own
               /\ IF match = {} THEN c.data.last_invoice_id = None
                  ELSE /\ c.data.last_invoice_id \in match
                       /\ \A k \in match :
                            invoices[k].created_at
                              <= invoices[c.data.last_invoice_id].created_at
\* The returned invoice is the newest of two of the user's first shop, and not
\* the one inserted last; the user's row was deleted while the call was
\* suspended at its second query.
C7_Witness ==
  \E c \in ctxOut :
    /\ c.queries = 2
    /\ ~users[c.user].exists
    /\ c.data.last_invoice_id = 1
    /\ Len(invoices) = 2
    /\ invoices[2].user_id = c.user /\ invoices[2].shop_id = c.data.user_shop_id
    /\ invoices[2].created_at < invoices[1].created_at

====
